---- MODULE Spec2Model ----
(***************************************************************************)
(* Runwith Cost Analyzer (src/app.py): the catalog loader, the fuzzy       *)
(* match resolver, the reconciliation run behind the "generate" button,    *)
(* and the editable result table with its totals.                          *)
(*                                                                         *)
(* An optional value (a dict key that may be absent, a table cell that may *)
(* be blank/NaN) is a sequence: <<>> when absent, <<v>> when present.      *)
(* Column names are written in ASCII: "name" = 商品名, "price" = アクト単価,  *)
(* "cd" = アクト商品CD, "unit" = ［単位］.                                    *)
(***************************************************************************)
EXTENDS Integers, Sequences, FiniteSets, TLC

VARIABLES
    products_file,    \* products.csv as found on disk
    scorer,           \* fuzz.partial_token_sort_ratio: (query, choice) -> score
    response,         \* the recognition payload of the click being handled
    match_level,      \* the slider value read by the click
    status,           \* message shown by the last script pass
    proposal_data,    \* the click handler's local row list
    proposal_result,  \* st.session_state.proposal_result: <<>> or <<table>>
    edited_df,        \* rows currently held by the data editor
    edits,            \* number of edit operations held by the data editor
    m_total,          \* displayed totals: <<>> when no table is displayed
    o_total,
    diff,
    ingredient_name,  \* arguments and result of a direct find_best_match call
    found

vars == <<products_file, scorer, response, match_level, status, proposal_data,
          proposal_result, edited_df, edits, m_total, o_total, diff,
          ingredient_name, found>>

-----------------------------------------------------------------------------
(* Bounds *)

MaxCatalog == 2
MaxItems == 2
MaxEdits == 1

(* Program constants *)

DefaultMatchLevel == 60

-----------------------------------------------------------------------------
(* Value domains *)

Has(x) == x # <<>>
Val(x) == x[1]

AllColumns == {"name", "price", "cd", "unit"}

\* a float NaN cell (an empty CSV cell); it differs from every string
NaNCell == "<NaN>"

\* rows of products.csv: name cell, raw price cell (<<>>: text that is no
\* number), product code, unit
CsvRows ==
    { [name |-> "c1", price |-> <<4>>, cd |-> "A-101", unit |-> "bag"],
      [name |-> "c2", price |-> <<>>, cd |-> "A-102", unit |-> "box"],
      [name |-> NaNCell, price |-> <<4>>, cd |-> "A-103", unit |-> "bag"] }

SeqsUpTo(S, n) == UNION {[1..k -> S] : k \in 0..n}

ColumnSets == {AllColumns} \cup {AllColumns \ {c} : c \in AllColumns}

MissingFile == [kind |-> "missing", columns |-> {}, rows |-> <<>>]
GarbageFile == [kind |-> "garbage", columns |-> {}, rows |-> <<>>]

Files ==
    {MissingFile, GarbageFile} \cup
    { [kind |-> "csv", columns |-> cs, rows |-> rs] :
        cs \in ColumnSets, rs \in SeqsUpTo(CsvRows, MaxCatalog) }

SessionFiles ==
    { MissingFile,
      [kind |-> "csv", columns |-> AllColumns,
       rows |-> <<[name |-> "c2", price |-> <<4>>, cd |-> "A-102", unit |-> "box"]>>] }

Queries == {"", "q1", "q2"}
Choices == {"c1", "c2", "nan"}
ScoreVals == {0, 60, 100}
Thresholds == {0, 60, 100}
SessionThresholds == {60, 100}

Item(n, p, q, u) == [name |-> n, market_price |-> p, qty |-> q, unit |-> u]

ValidItems ==
    { Item(<<"q1">>, <<2>>, <<1>>, <<"kg">>),
      Item(<<"q2">>, <<3>>, <<2>>, <<"kg">>) }

MalformedItems ==
    { Item(<<>>, <<2>>, <<1>>, <<"kg">>),
      Item(<<"">>, <<2>>, <<1>>, <<"kg">>),
      Item(<<"q1">>, <<>>, <<1>>, <<"kg">>),
      Item(<<"q1">>, <<2>>, <<-1>>, <<"kg">>),
      Item(<<"q1">>, <<2>>, <<1>>, <<>>) }

Items == ValidItems \cup MalformedItems

SessionItems ==
    { Item(<<"q2">>, <<3>>, <<2>>, <<"kg">>),
      Item(<<>>, <<2>>, <<1>>, <<"kg">>) }

Payload(k, ms) == [kind |-> k, materials |-> ms]

NoResponse == Payload("none", <<>>)

\* what the model's reply can amount to: no bracketed text at all, bracketed
\* text that is not JSON, a JSON array, an object without "materials", an
\* object whose "materials" is null, an object with a materials list
PayloadsOver(S) ==
    { Payload(k, <<>>) : k \in {"nojson", "badjson", "array", "object", "object_null"} }
    \cup { Payload("object_list", ms) : ms \in SeqsUpTo(S, MaxItems) }

Payloads == PayloadsOver(Items)
SessionPayloads == PayloadsOver(SessionItems)

EditVals == {5}
EditColumns == {"market_price", "our_price", "qty"}

-----------------------------------------------------------------------------
(* load_products *)

EmptyFrame == [columns |-> {}, rows |-> <<>>]

\* pd.to_numeric(errors='coerce').fillna(0) on one cell
to_numeric(cell) == IF Has(cell) THEN Val(cell) ELSE 0

\* pd.read_csv: a frame row carries its index label (its position in the file)
read_csv(file) ==
    [columns |-> file.columns,
     rows |-> [i \in 1..Len(file.rows) |->
                 [idx |-> i, name |-> file.rows[i].name, price |-> file.rows[i].price,
                  cd |-> file.rows[i].cd, unit |-> file.rows[i].unit]]]

load_products(file) ==
    IF file.kind = "missing" THEN EmptyFrame
    ELSE IF file.kind = "garbage" THEN EmptyFrame
    ELSE LET df == read_csv(file) IN
         IF "price" \in df.columns
         THEN [df EXCEPT !.rows =
                  [i \in 1..Len(df.rows) |->
                      [df.rows[i] EXCEPT !.price = <<to_numeric(df.rows[i].price)>>]]]
         ELSE df

\* DataFrame.empty: some axis has length 0
IsEmpty(df) == df.columns = {} \/ df.rows = <<>>

-----------------------------------------------------------------------------
(* find_best_match *)

NoRow == [idx |-> 0, name |-> "", price |-> <<>>, cd |-> "", unit |-> ""]

\* Series.astype(str) on one cell of the name column
astype_str(cell) == IF cell = NaNCell THEN "nan" ELSE cell

\* element-wise master_df["name"] == best_match_name: NaN equals nothing
cell_eq(cell, s) == cell # NaNCell /\ cell = s

Score(query, choice) == scorer[<<query, choice>>]

\* process.extractOne: one pass over the choices in order, a later choice
\* replaces the best one only with a strictly higher score
RECURSIVE extract_scan(_, _, _, _)
extract_scan(query, choices, k, best) ==
    IF k > Len(choices) THEN best
    ELSE IF Score(query, choices[k]) > best.score
         THEN extract_scan(query, choices, k + 1,
                           [name |-> choices[k], score |-> Score(query, choices[k])])
         ELSE extract_scan(query, choices, k + 1, best)

extractOne(query, choices) ==
    extract_scan(query, choices, 2,
                 [name |-> choices[1], score |-> Score(query, choices[1])])

SetMin(S) == CHOOSE x \in S : \A y \in S : x <= y

Returned(row, sc) == [kind |-> "ok", match |-> row, score |-> sc]
Raised(what) == [kind |-> what, match |-> NoRow, score |-> 0]

\* variant: the comparison of line 71 turned around
accepts_below(score, threshold) == score <= threshold

accepts(score, threshold) == score >= threshold

SetMax(S) == CHOOSE x \in S : \A y \in S : x >= y

\* variant: .iloc[-1] in place of .iloc[0]
find_best_match_last(name, master_df, threshold) ==
    IF IsEmpty(master_df) \/ "name" \notin master_df.columns
    THEN Returned(NoRow, 0)
    ELSE LET rows == master_df.rows
             choices == [i \in 1..Len(rows) |-> astype_str(rows[i].name)]
             best == extractOne(name, choices)
         IN IF accepts(best.score, threshold)
            THEN LET hits == {i \in 1..Len(rows) : cell_eq(rows[i].name, best.name)}
                 IN IF hits = {} THEN Raised("IndexError")
                    ELSE Returned(rows[SetMax(hits)], best.score)
            ELSE Returned(NoRow, 0)

find_best_match(name, master_df, threshold) ==
    IF IsEmpty(master_df) \/ "name" \notin master_df.columns
    THEN Returned(NoRow, 0)
    ELSE LET rows == master_df.rows
             choices == [i \in 1..Len(rows) |-> astype_str(rows[i].name)]
             best == extractOne(name, choices)
         IN IF accepts(best.score, threshold)
            THEN LET hits == {i \in 1..Len(rows) : cell_eq(rows[i].name, best.name)}
                 IN IF hits = {} THEN Raised("IndexError")
                    ELSE Returned(rows[SetMin(hits)], best.score)
            ELSE Returned(NoRow, 0)

-----------------------------------------------------------------------------
(* the reconciliation loop *)

NoneRow ==
    [name |-> "", market_price |-> <<>>, cd |-> "", product |-> "",
     our_price |-> <<>>, qty |-> <<>>, unit |-> ""]

RowOk(r) == [kind |-> "ok", row |-> r]
RowRaised(what) == [kind |-> what, row |-> NoneRow]

\* variant: an unmatched row priced at the item's market price
unmatched_price_market(item) == item.market_price

unmatched_price(item) == <<0>>

\* one iteration: find_best_match, then the dict literal, field by field
make_row(item, master_df, threshold) ==
    IF ~Has(item.name) THEN RowRaised("KeyError")
    ELSE LET res == find_best_match(Val(item.name), master_df, threshold)
             matched == res.match # NoRow
             m == res.match
         IN IF res.kind # "ok" THEN RowRaised(res.kind)
            ELSE IF ~Has(item.market_price) THEN RowRaised("KeyError")
            ELSE IF matched /\ "cd" \notin master_df.columns THEN RowRaised("KeyError")
            ELSE IF matched /\ "price" \notin master_df.columns THEN RowRaised("KeyError")
            ELSE IF ~Has(item.qty) THEN RowRaised("KeyError")
            ELSE IF matched /\ "unit" \notin master_df.columns THEN RowRaised("KeyError")
            ELSE IF ~matched /\ ~Has(item.unit) THEN RowRaised("KeyError")
            ELSE RowOk([name |-> Val(item.name),
                        market_price |-> item.market_price,
                        cd |-> IF matched THEN m.cd ELSE "---",
                        product |-> IF matched THEN m.name ELSE "no match",
                        our_price |-> IF matched THEN m.price ELSE unmatched_price(item),
                        qty |-> item.qty,
                        unit |-> IF matched THEN m.unit ELSE Val(item.unit)])

\* for item in materials_list: proposal_data.append(...); an exception leaves
\* the rows appended so far in the local list and ends the loop
RECURSIVE reconcile(_, _, _, _, _)
reconcile(materials, master_df, threshold, k, acc) ==
    IF k > Len(materials) THEN [kind |-> "ok", rows |-> acc]
    ELSE LET r == make_row(materials[k], master_df, threshold)
         IN IF r.kind # "ok" THEN [kind |-> r.kind, rows |-> acc]
            ELSE reconcile(materials, master_df, threshold, k + 1, Append(acc, r.row))

Reverse(sq) == [i \in 1..Len(sq) |-> sq[Len(sq) + 1 - i]]

\* variant: proposal_data.insert(0, ...) in place of append
run_handler_front(payload, file, threshold) ==
    IF payload.kind = "nojson" THEN [kind |-> "Exception", rows |-> <<>>]
    ELSE IF payload.kind = "badjson" THEN [kind |-> "JSONDecodeError", rows |-> <<>>]
    ELSE IF payload.kind = "array" THEN [kind |-> "AttributeError", rows |-> <<>>]
    ELSE IF payload.kind = "object_null" THEN [kind |-> "TypeError", rows |-> <<>>]
    ELSE LET materials_list ==
                 IF payload.kind = "object_list" THEN payload.materials ELSE <<>>
             out == reconcile(materials_list, load_products(file), threshold, 1, <<>>)
         IN [out EXCEPT !.rows = Reverse(out.rows)]

\* variant: a reply that is not an object is taken as an empty materials list
run_handler_lenient(payload, file, threshold) ==
    IF payload.kind = "nojson" THEN [kind |-> "Exception", rows |-> <<>>]
    ELSE IF payload.kind = "badjson" THEN [kind |-> "JSONDecodeError", rows |-> <<>>]
    ELSE LET materials_list ==
                 IF payload.kind = "object_list" THEN payload.materials ELSE <<>>
         IN reconcile(materials_list, load_products(file), threshold, 1, <<>>)

\* json_match / json.loads / analysis_res.get("materials", []) and the loop
run_handler(payload, file, threshold) ==
    IF payload.kind = "nojson" THEN [kind |-> "Exception", rows |-> <<>>]
    ELSE IF payload.kind = "badjson" THEN [kind |-> "JSONDecodeError", rows |-> <<>>]
    ELSE IF payload.kind = "array" THEN [kind |-> "AttributeError", rows |-> <<>>]
    ELSE IF payload.kind = "object_null" THEN [kind |-> "TypeError", rows |-> <<>>]
    ELSE LET materials_list ==
                 IF payload.kind = "object_list" THEN payload.materials ELSE <<>>
         IN reconcile(materials_list, load_products(file), threshold, 1, <<>>)

-----------------------------------------------------------------------------
(* aggregation *)

\* price * qty of one row as floats: NaN when either cell is blank
product(a, b) == IF Has(a) /\ Has(b) THEN <<Val(a) * Val(b)>> ELSE <<>>

\* Series.sum(): NaN terms are skipped
RECURSIVE series_sum(_)
series_sum(s) ==
    IF s = <<>> THEN 0
    ELSE (IF Has(Head(s)) THEN Val(Head(s)) ELSE 0) + series_sum(Tail(s))

market_sum(df) == series_sum([i \in 1..Len(df) |-> product(df[i].market_price, df[i].qty)])
own_sum(df) == series_sum([i \in 1..Len(df) |-> product(df[i].our_price, df[i].qty)])

\* variant: the totals computed from the table in session_state
totals_source_stored(stored, edited) == Val(stored)

\* the table the totals are computed from: the data editor's return value
totals_source(stored, edited) == edited

-----------------------------------------------------------------------------
(* the scoring library *)

\* scores the library is taken to give for the names of the model: "q1" is an
\* exact reordering of both "c1" and "c2", "q2" is close to "c2" and contains
\* the text "nan", the empty query scores 0 against everything
LibScore(q, c) ==
    CASE q = "q1" /\ c \in {"c1", "c2"} -> 100
      [] q = "q2" /\ c = "c2" -> 60
      [] q = "q2" /\ c = "nan" -> 100
      [] OTHER -> 0

LibScorer == [p \in Queries \X Choices |-> LibScore(p[1], p[2])]

\* every score row the library could give for the query "q1"
MatchScorers ==
    { [p \in Queries \X Choices |->
          IF p[1] = "q1" THEN f[p[2]] ELSE LibScore(p[1], p[2])] :
      f \in [Choices -> ScoreVals] }

-----------------------------------------------------------------------------
(* the script *)

NotCalled == [kind |-> "none", match |-> NoRow, score |-> 0]

Start(files, scorers) ==
    /\ products_file \in files
    /\ scorer \in scorers
    /\ response = NoResponse
    /\ match_level = DefaultMatchLevel
    /\ status = "none"
    /\ proposal_data = <<>>
    /\ proposal_result = <<>>
    /\ edited_df = <<>>
    /\ edits = 0
    /\ m_total = <<>>
    /\ o_total = <<>>
    /\ diff = <<>>
    /\ ingredient_name = ""
    /\ found = NotCalled

Init == Start(SessionFiles, {LibScorer})

\* "if 'proposal_result' in st.session_state": the editor and the three metrics
Display ==
    LET src == totals_source(proposal_result', edited_df') IN
    IF Has(proposal_result')
    THEN /\ m_total' = <<market_sum(src)>>
         /\ o_total' = <<own_sum(src)>>
         /\ diff' = <<market_sum(src) - own_sum(src)>>
    ELSE /\ m_total' = <<>>
         /\ o_total' = <<>>
         /\ diff' = <<>>

\* variant: the rows built before an exception are stored as well
stored_after_partial(out, old) ==
    IF out.rows # <<>> THEN <<out.rows>> ELSE old

\* what the handler leaves in session_state.proposal_result
stored_after(out, old) ==
    IF out.kind = "ok" /\ out.rows # <<>> THEN <<out.rows>> ELSE old

message_after(out) ==
    IF out.kind # "ok" THEN "error"
    ELSE IF out.rows # <<>> THEN "success"
    ELSE "warning"

\* the button click (image uploaded, API key and client name given) with the
\* reply p of the recognition service and the slider at t, followed by the
\* display section of the same script pass; load_products is cached, so
\* every click of a session reads the same products_file
Click(p, t) ==
    \E out \in {run_handler(p, products_file, t)} :
    /\ response' = p
    /\ match_level' = t
    /\ proposal_data' = out.rows
    /\ status' = message_after(out)
    /\ proposal_result' = stored_after(out, proposal_result)
    /\ IF proposal_result' = proposal_result
       THEN \* the editor is handed a table with the same content and keeps
            \* its edit state
            UNCHANGED <<edited_df, edits>>
       ELSE /\ edited_df' = Val(proposal_result')
            /\ edits' = 0
    /\ Display
    /\ UNCHANGED <<products_file, scorer, ingredient_name, found>>

\* a script pass caused by an edit: the button is not pressed
Rerun ==
    /\ response' = NoResponse
    /\ proposal_data' = <<>>
    /\ status' = "none"
    /\ edits' = edits + 1
    /\ UNCHANGED <<products_file, scorer, match_level, proposal_result,
                   ingredient_name, found>>
    /\ Display

CanEdit == Has(proposal_result) /\ edits < MaxEdits

EditCell(r, col, v) ==
    /\ CanEdit
    /\ r \in 1..Len(edited_df)
    /\ edited_df' = [edited_df EXCEPT ![r][col] = <<v>>]
    /\ Rerun

InsertRow ==
    /\ CanEdit
    /\ edited_df' = Append(edited_df, NoneRow)
    /\ Rerun

DeleteRow(r) ==
    /\ CanEdit
    /\ r \in 1..Len(edited_df)
    /\ edited_df' = [i \in 1..(Len(edited_df) - 1) |->
                        IF i < r THEN edited_df[i] ELSE edited_df[i + 1]]
    /\ Rerun

Next ==
    \/ \E p \in SessionPayloads, t \in SessionThresholds : Click(p, t)
    \/ \E r \in 1..(MaxItems + MaxEdits), col \in EditColumns, v \in EditVals :
          EditCell(r, col, v)
    \/ InsertRow
    \/ \E r \in 1..(MaxItems + MaxEdits) : DeleteRow(r)

Spec == Init /\ [][Next]_vars

\* the first click of a session, over every catalog file and every reply
InitRun == Start(Files, {LibScorer})

FirstClick ==
    /\ status = "none"
    /\ \E p \in Payloads, t \in Thresholds : Click(p, t)

NextRun == FirstClick

SpecRun == InitRun /\ [][NextRun]_vars

\* find_best_match called directly, over every catalog file and score row
InitMatch == Start(Files, MatchScorers)

Resolve(q, t) ==
    /\ ingredient_name' = q
    /\ match_level' = t
    /\ found' = find_best_match(q, load_products(products_file), t)
    /\ UNCHANGED <<products_file, scorer, response, status, proposal_data,
                   proposal_result, edited_df, edits, m_total, o_total, diff>>

NextMatch == \E q \in Queries, t \in Thresholds : Resolve(q, t)

SpecMatch == InitMatch /\ [][NextMatch]_vars

-----------------------------------------------------------------------------
(* Properties *)

master_df == load_products(products_file)

Clicked == status # "none"

\* the list the loop iterates over when the reply is an object
Materials == IF response.kind = "object_list" THEN response.materials ELSE <<>>

\* an item with every required field, a non-empty name and no negative number
IsValidItem(item) ==
    /\ Has(item.name) /\ Val(item.name) # ""
    /\ Has(item.market_price) /\ Val(item.market_price) >= 0
    /\ Has(item.qty) /\ Val(item.qty) >= 0
    /\ Has(item.unit)

ScoreOfRow(q, r) == Score(q, astype_str(r.name))

\* positions of the catalog rows whose score for q is the maximum
TopRows(q, df) ==
    { i \in 1..Len(df.rows) :
        \A j \in 1..Len(df.rows) : ScoreOfRow(q, df.rows[i]) >= ScoreOfRow(q, df.rows[j]) }

MaxScore(q, df) == ScoreOfRow(q, df.rows[SetMin(TopRows(q, df))])

Matchable(df) == ~IsEmpty(df) /\ "name" \in df.columns

\* C1: whenever find_best_match returns a catalog entry, the entry is the first
\* row in load order among the rows with the maximum score for the query, and
\* the returned score is that maximum.
C1_FirstBestEntry ==
    (found.kind = "ok" /\ found.match # NoRow) =>
        /\ found.match = master_df.rows[SetMin(TopRows(ingredient_name, master_df))]
        /\ found.score = MaxScore(ingredient_name, master_df)

\* two rows with different names tie at the maximum and the first one is returned
C1_Witness ==
    /\ found.kind = "ok"
    /\ found.match # NoRow
    /\ Len(master_df.rows) >= 2
    /\ master_df.rows[1].name # master_df.rows[2].name
    /\ {1, 2} \subseteq TopRows(ingredient_name, master_df)
    /\ found.match.idx = 1

\* C2: a call of find_best_match returns (it does not raise), its score is in
\* 0..100, and it returns a catalog entry exactly when the catalog is non-empty
\* and the maximum score reaches the threshold.
C2_EntryIffAccepted ==
    (found.kind # "none") =>
        /\ found.kind = "ok"
        /\ found.score \in 0..100
        /\ (found.match # NoRow) <=>
              (Matchable(master_df) /\ MaxScore(ingredient_name, master_df) >= match_level)

Accepted(q, t) ==
    LET r == find_best_match(q, master_df, t) IN r.kind = "ok" /\ r.match # NoRow

AcceptedAt(t) == {q \in Queries : Accepted(q, t)}

\* C8: for thresholds t1 < t2 and a fixed catalog, every query accepted at t2
\* is accepted at t1.
C8_ThresholdMonotone ==
    \A t1 \in Thresholds, t2 \in Thresholds :
        t1 < t2 => AcceptedAt(t2) \subseteq AcceptedAt(t1)

\* a call has accepted a match, and raising the threshold loses some but not
\* all of the accepted queries
C8_Witness ==
    /\ found.kind = "ok"
    /\ found.match # NoRow
    /\ \E t1 \in Thresholds, t2 \in Thresholds :
          /\ t1 < t2
          /\ AcceptedAt(t2) # {}
          /\ AcceptedAt(t2) # AcceptedAt(t1)

RowNames(rows) == [i \in 1..Len(rows) |-> rows[i].name]
ItemNamesOf(items) == [i \in 1..Len(items) |-> Val(items[i].name)]

\* C3: a run over a materials list does not abort, and the rows it builds are
\* the rows of the valid items, in order, the invalid items being left out.
C3_InvalidItemsExcluded ==
    (Clicked /\ response.kind = "object_list") =>
        /\ status # "error"
        /\ RowNames(proposal_data) = ItemNamesOf(SelectSeq(Materials, IsValidItem))

\* C4: a run that completes has built exactly one row per item of the
\* materials list, row i from item i, the catalog and the threshold alone, and
\* a non-empty row list is what it stores.
C4_RowPerItemInOrder ==
    (status \in {"success", "warning"}) =>
        /\ Len(proposal_data) = Len(Materials)
        /\ \A i \in 1..Len(Materials) :
              /\ make_row(Materials[i], master_df, match_level).kind = "ok"
              /\ proposal_data[i] = make_row(Materials[i], master_df, match_level).row
        /\ (status = "success") <=> (Materials # <<>>)
        /\ (status = "success") => proposal_result = <<proposal_data>>

\* a completed run over two different items
C4_Witness ==
    /\ status = "success"
    /\ Len(Materials) = 2
    /\ Materials[1].name # Materials[2].name
    /\ Len(Val(proposal_result)) = 2
    /\ Val(proposal_result)[1].cd # Val(proposal_result)[2].cd

Amount(a, b) == IF Has(a) /\ Has(b) THEN Val(a) * Val(b) ELSE 0

RECURSIVE SumUpTo(_, _, _)
SumUpTo(df, n, col) ==
    IF n = 0 THEN 0
    ELSE SumUpTo(df, n - 1, col) + Amount(df[n][col], df[n].qty)

\* C5: whenever the table is displayed, the three totals are those of the rows
\* the editor currently holds: market_total and own_total over the current
\* rows, savings their difference.
C5_TotalsFromCurrentRows ==
    Has(proposal_result) =>
        /\ m_total = <<SumUpTo(edited_df, Len(edited_df), "market_price")>>
        /\ o_total = <<SumUpTo(edited_df, Len(edited_df), "our_price")>>
        /\ diff = <<Val(m_total) - Val(o_total)>>

\* the reviewer has edited the table, the totals differ from those of the
\* stored table, and the savings are negative
C5_Witness ==
    /\ Has(proposal_result)
    /\ edits > 0
    /\ edited_df # Val(proposal_result)
    /\ Val(o_total) # own_sum(Val(proposal_result))
    /\ Val(diff) < 0

\* C6: with an empty catalog a run over valid items does not fail, builds one
\* unmatched row (placeholder product, own price 0) per item, and the totals
\* displayed have own_total = 0 and savings = market_total.
C6_EmptyCatalogAllUnmatched ==
    (/\ Clicked
     /\ IsEmpty(master_df)
     /\ response.kind = "object_list"
     /\ \A i \in 1..Len(Materials) : IsValidItem(Materials[i])) =>
        /\ status # "error"
        /\ Len(proposal_data) = Len(Materials)
        /\ \A i \in 1..Len(proposal_data) :
              /\ proposal_data[i].cd = "---"
              /\ proposal_data[i].our_price = <<0>>
              /\ proposal_data[i].unit = Val(Materials[i].unit)
        /\ (Materials # <<>>) =>
              /\ proposal_result = <<proposal_data>>
              /\ o_total = <<0>>
              /\ diff = m_total
              /\ Val(m_total) > 0

\* products.csv cannot be parsed and the run stored two rows
C6_Witness ==
    /\ products_file.kind = "garbage"
    /\ status = "success"
    /\ Len(Val(proposal_result)) = 2
    /\ \A i \in 1..2 : IsValidItem(Materials[i])

\* C7: with a catalog that has the name and price columns but lacks the
\* product-code or the unit column, a run over valid items in which no lookup
\* raises and some item is matched completes and builds a row for every item.
C7_MissingOptionalColumn ==
    (/\ Clicked
     /\ response.kind = "object_list"
     /\ {"name", "price"} \subseteq master_df.columns
     /\ master_df.columns # AllColumns
     /\ \A i \in 1..Len(Materials) :
           /\ IsValidItem(Materials[i])
           /\ find_best_match(Val(Materials[i].name), master_df, match_level).kind = "ok"
     /\ \E i \in 1..Len(Materials) : Accepted(Val(Materials[i].name), match_level)) =>
        /\ status = "success"
        /\ Len(proposal_data) = Len(Materials)

Malformed(p) == p.kind \in {"nojson", "badjson", "array", "object", "object_null"}

C10_StoredOnlyByCompleteRun ==
    [][ /\ (proposal_result' # proposal_result) =>
              /\ status' = "success"
              /\ proposal_data' # <<>>
              /\ Len(proposal_data') = Len(response'.materials)
              /\ proposal_result' = <<proposal_data'>>
        /\ (status' \in {"error", "warning"}) =>
              /\ proposal_result' = proposal_result
              /\ edited_df' = edited_df
              /\ <<m_total', o_total', diff'>> = <<m_total, o_total, diff>>
      ]_vars

\* a click failed on its second item, after an earlier table was stored and
\* edited: the first item's row was built and the edited table is still there
C10_Witness ==
    /\ status = "error"
    /\ proposal_data # <<>>
    /\ Has(proposal_result)
    /\ edits > 0
    /\ edited_df # Val(proposal_result)

====
